---- MODULE Spec2Model ----
(***************************************************************************)
(* The Metronome of rhythm-vis (lib/Metronome.js): a lookahead scheduler   *)
(* driven by setTimeout that commits beeps to the AudioContext clock.      *)
(*                                                                         *)
(* Time is counted in units of 0.05 s, so that beepDuration (0.05 s),      *)
(* scheduleTimeout (100 ms) and lookAheadTime (0.5 s) are whole numbers.   *)
(* The tempi of BpmArgs divide 60 s exactly, so 60 / bpm is exact and the  *)
(* arithmetic of the model is the arithmetic of the code without rounding. *)
(*                                                                         *)
(* The observer callback is registered right after construction, as        *)
(* Recorder.svelte does, and the AudioContext is running. The Recorder     *)
(* component (src/components/Recorder.svelte) is modelled as far as it     *)
(* drives the metronome and keeps its click and accent logs.               *)
(*                                                                         *)
(* log is a history of what the metronome handed to the observer and to    *)
(* the AudioContext since the last accepted start(); hung records that the *)
(* while loop of _scheduler was entered with 60 / bpm <= 0, where it never *)
(* ends: the page is blocked and no further call or timeout runs.          *)
(*                                                                         *)
(* Spec is the metronome under start(), stop(), toggle(), its timeouts and *)
(* the clock; SpecRhythm is the playback of a rhythm track, the timeouts   *)
(* firing and the clock advancing; SpecRecorder is the Recorder page with  *)
(* its start / stop button driving the metronome.                          *)
(***************************************************************************)
EXTENDS Integers, Sequences, FiniteSets, TLC

\* ---------------------------------------------------------------- bounds
\* The AudioContext clock is followed up to MaxTime units.
MaxTime == 3
\* At most MaxPending timeouts are pending at a time: a call that would
\* leave more is not made.
MaxPending == 2
\* A rhythm track has at most MaxEvents events.
MaxEvents == 2

\* ------------------------------------------------------------- constants
UnitsPerSecond == 20
beepDuration == 1
lookAheadTime == 10
scheduleTimeout == 2
accentFrequency == 330
normalFrequency == 220
defaultAccent == 4

\* ------------------------------------------------------------- JS values
\* A JavaScript value of the kinds the callers pass: a number, NaN, an
\* infinity, null, or undefined (an omitted argument).
Undefined == [t |-> "undefined", v |-> 0]
Null == [t |-> "null", v |-> 0]
NaN == [t |-> "NaN", v |-> 0]
Infinity == [t |-> "Infinity", v |-> 1]
Num(n) == [t |-> "number", v |-> n]

\* !x is ~ToBoolean(x): 0, NaN, null and undefined are falsy.
ToBoolean(x) ==
    CASE x.t = "number" -> x.v # 0
      [] x.t = "Infinity" -> TRUE
      [] OTHER -> FALSE

\* +x: undefined becomes NaN, null becomes 0, a number is itself.
ToNumber(x) ==
    CASE x.t = "undefined" -> NaN
      [] x.t = "null" -> Num(0)
      [] OTHER -> x

IsNaN(x) == x.t = "NaN"

\* A default parameter applies when the argument is undefined (omitted).
DefaultArg(x, d) == IF x = Undefined THEN d ELSE x

Abs(n) == IF n < 0 THEN -n ELSE n

\* a % b of JavaScript for an integer a: the sign is that of a; a % Infinity = a.
JsRem(a, b) ==
    IF b.t = "Infinity" THEN a
    ELSE IF a < 0 THEN -((-a) % Abs(b.v)) ELSE a % Abs(b.v)

\* a === b - 1 for an integer a and a number b (Infinity - 1 is Infinity).
EqualsMinusOne(a, b) == b.t = "number" /\ a = b.v - 1

\* ------------------------------------------------------------ inputs
\* The argument values the claims are stated for.
BpmArgs == {Undefined, NaN, Num(0), Num(120), Num(600), Num(-120), Infinity}
AccentArgs == {Undefined, Null, NaN, Num(0), Num(1), Num(4), Num(-2)}

\* The calls of start(bpm, accent) that are made: every value of BpmArgs and
\* of AccentArgs occurs, an invalid one next to a valid partner.
StartArgs ==
    { <<Undefined, Undefined>>, <<NaN, Num(4)>>, <<Num(0), Num(1)>>,
      <<Num(120), Null>>, <<Num(600), NaN>>, <<Num(120), Num(0)>>,
      <<Num(120), Num(4)>>, <<Num(600), Undefined>>, <<Num(600), Num(1)>>,
      <<Num(-120), Undefined>>, <<Infinity, Num(4)>>, <<Num(600), Num(-2)>> }

\* The calls of toggle(bpm, accent) that are made.
ToggleArgs ==
    { <<Undefined, Undefined>>, <<Undefined, Null>>, <<Num(0), Undefined>>,
      <<Num(600), Num(1)>> }

\* A rhythm track: events [time, accent], the time an offset from the start
\* of the track. The offsets lie at the start, at the edge of the first
\* lookahead window and one unit past it.
RhythmOffsets == {0, lookAheadTime, lookAheadTime + 1}
RhythmEvents == [time : RhythmOffsets, accent : BOOLEAN]
RhythmQueues == UNION {[1..n -> RhythmEvents] : n \in 0..MaxEvents}
\* The clock values a track is started for.
RhythmStarts == {0, 1}

\* The values of the bpm, beep and accent inputs of the Recorder; the bpm is
\* a multiple of the beep, so bpm / beep is exact.
RecorderSettings ==
    { [bpm |-> 120, beep |-> 1, accent |-> 1],
      [bpm |-> 240, beep |-> 1, accent |-> 4],
      [bpm |-> 240, beep |-> 2, accent |-> 2] }

\* An array as a JavaScript value, and the null in the place of one.
Arr(q) == [t |-> "array", v |-> q]
NoArr == [t |-> "null", v |-> <<>>]

\* ------------------------------------------------------------- state
VARIABLES
    isPlaying,       \* #isPlaying
    timerID,         \* #timerID: null or the handle of the last setTimeout
    bpm,             \* #bpm
    accent,          \* #accent
    startTimeStamp,  \* #startTimeStamp
    beatCount,       \* #beatCount
    currentTime,     \* audioCtx.currentTime
    timers,          \* the pending timeouts: [id, due, fn]
    log,             \* history: the observer calls and oscillators since the
                     \*   last accepted start(), in program order
    hung,            \* the lookahead loop never ends
    startedBpm,      \* history: the bpm of the last accepted start()
    tickBase,        \* history: Len(log) when the last run of _scheduler began
    ran,             \* history: the last step ran _scheduler
    lastOp,          \* history: the last step taken, with its arguments
    misconfigured,   \* history: a start() was accepted whose bpm or accent
                     \*   is not a positive number
    lastRun,         \* history: the clock when a scheduler last began to run
    late,            \* history: a run of the session began more than
                     \*   lookAheadTime after the run before it
    rhythm,          \* #rhythm: null or the queue of [time, accent] events
    rhythmOrig,      \* history: the queue the rhythm track was started with
    onClick,         \* #onClick: the observer that is registered
    metronomeClicks, \* Recorder: metronomeClicks
    metronomeAccents,\* Recorder: metronomeAccents
    isRecording,     \* Recorder: isRecording
    awaiting,        \* Recorder: stop() is suspended at its await
    settings         \* Recorder: the bpm, beep and accent inputs

vars == <<isPlaying, timerID, bpm, accent, startTimeStamp, beatCount,
          currentTime, timers, log, hung, startedBpm, tickBase, ran, lastOp,
          misconfigured, lastRun, late, rhythm, rhythmOrig, onClick,
          metronomeClicks, metronomeAccents, isRecording, awaiting, settings>>

\* What the methods of the Metronome never touch.
recorderVars == <<isRecording, awaiting, settings>>

\* The metronome and its environment as one value, for the methods below.
M ==
    [isPlaying |-> isPlaying, timerID |-> timerID, bpm |-> bpm,
     accent |-> accent, startTimeStamp |-> startTimeStamp,
     beatCount |-> beatCount, currentTime |-> currentTime,
     timers |-> timers, log |-> log, hung |-> hung,
     startedBpm |-> startedBpm, tickBase |-> tickBase, ran |-> FALSE,
     lastRun |-> lastRun, late |-> late, rhythm |-> rhythm,
     onClick |-> onClick, metronomeClicks |-> metronomeClicks,
     metronomeAccents |-> metronomeAccents]

Become(m) ==
    /\ isPlaying' = m.isPlaying
    /\ timerID' = m.timerID
    /\ bpm' = m.bpm
    /\ accent' = m.accent
    /\ startTimeStamp' = m.startTimeStamp
    /\ beatCount' = m.beatCount
    /\ currentTime' = m.currentTime
    /\ timers' = m.timers
    /\ log' = m.log
    /\ hung' = m.hung
    /\ startedBpm' = m.startedBpm
    /\ tickBase' = m.tickBase
    /\ ran' = m.ran
    /\ lastRun' = m.lastRun
    /\ late' = m.late
    /\ rhythm' = m.rhythm
    /\ onClick' = m.onClick
    /\ metronomeClicks' = m.metronomeClicks
    /\ metronomeAccents' = m.metronomeAccents

\* ------------------------------------------------------------ Ticker
\* The handle setTimeout returns: a positive integer that identifies the
\* timeout among the pending ones (the least one that is free).
FreeHandle(m) ==
    CHOOSE i \in 1..(Cardinality(m.timers) + 1) :
        /\ \A h \in m.timers : h.id # i
        /\ \A j \in 1..(i - 1) : \E h \in m.timers : h.id = j

\* this.#timerID = setTimeout(fn, this.#scheduleTimeout)
setTimeout(m, fn) ==
    [m EXCEPT !.timers = @ \cup {[id |-> FreeHandle(m),
                                  due |-> m.currentTime + scheduleTimeout,
                                  fn |-> fn]},
              !.timerID = Num(FreeHandle(m))]

\* clearTimeout(id): an id that is null or no longer pending is ignored.
clearTimeout(m, id) ==
    [m EXCEPT !.timers = {h \in @ : ~(id.t = "number" /\ h.id = id.v)}]

\* ------------------------------------------------------------ Metronome
\* The observer the Recorder registers: (time, isAccent) => { ... }. Any
\* other observer only sees the call.
recorderOnClick(m, time, isAccentArg) ==
    IF m.onClick = "recorder"
    THEN [m EXCEPT !.metronomeClicks = Append(@, time),
                   !.metronomeAccents = IF ToBoolean(isAccentArg)
                                        THEN Append(@, time) ELSE @]
    ELSE m

\* As playSound, the oscillator first and the observer after it.
playSoundToneFirst(m, time, frequency) ==
    [recorderOnClick(m, time, Undefined) EXCEPT !.log = @ \o
        << [kind |-> "tone", time |-> time, frequency |-> frequency,
            until |-> time + beepDuration],
           [kind |-> "click", time |-> time, frequency |-> 0, until |-> time] >>]

\* _playSound(time, frequency): the observer first, called with the time
\* alone, then the oscillator.
playSound(m, time, frequency) ==
    [recorderOnClick(m, time, Undefined) EXCEPT !.log = @ \o
        << [kind |-> "click", time |-> time, frequency |-> 0, until |-> time],
           [kind |-> "tone", time |-> time, frequency |-> frequency,
            until |-> time + beepDuration] >>]

\* 60 / this.#bpm, for the values start() lets through.
SecondsPerBeat(b) ==
    IF b.t = "Infinity" THEN 0
    ELSE IF b.v > 0 THEN (60 * UnitsPerSecond) \div b.v
    ELSE -((60 * UnitsPerSecond) \div (-b.v))

\* As isAccent, without the clause for the first beat.
isAccentByRemainder(count, accentNote) ==
    EqualsMinusOne(JsRem(count, accentNote), accentNote)

\* this.#beatCount % accentNote === accentNote - 1 || this.#beatCount === -1
isAccent(count, accentNote) ==
    EqualsMinusOne(JsRem(count, accentNote), accentNote) \/ count = -1

\* As firstNotetime, counting from the beat after the last one emitted.
firstNotetimeAhead(m, secondsPerBeat) ==
    m.startTimeStamp.v + (m.beatCount.v + 1) * secondsPerBeat

\* this.#startTimeStamp + this.#beatCount * secondsPerBeat
firstNotetime(m, secondsPerBeat) ==
    m.startTimeStamp.v + m.beatCount.v * secondsPerBeat

\* As schedulerLoop, with an if in the place of the while: one beat a tick.
schedulerLoopOnce(m, nextNotetime, secondsPerBeat) ==
    IF nextNotetime < m.currentTime + lookAheadTime
    THEN LET t == nextNotetime + secondsPerBeat
             frequency == IF isAccent(m.beatCount.v, m.accent)
                          THEN accentFrequency ELSE normalFrequency
             played == playSound(m, t, frequency)
         IN  [played EXCEPT !.beatCount = Num(@.v + 1)]
    ELSE m

\* As schedulerLoop, with <= in the place of <.
RECURSIVE schedulerLoopInclusive(_, _, _)
schedulerLoopInclusive(m, nextNotetime, secondsPerBeat) ==
    IF nextNotetime <= m.currentTime + lookAheadTime
    THEN LET t == nextNotetime + secondsPerBeat
             frequency == IF isAccent(m.beatCount.v, m.accent)
                          THEN accentFrequency ELSE normalFrequency
             played == playSound(m, t, frequency)
             counted == [played EXCEPT !.beatCount = Num(@.v + 1)]
         IN  IF secondsPerBeat <= 0
             THEN [counted EXCEPT !.hung = TRUE]
             ELSE schedulerLoopInclusive(counted, t, secondsPerBeat)
    ELSE m

\* As schedulerLoop, looking no further ahead than the clock.
RECURSIVE schedulerLoopNoLookahead(_, _, _)
schedulerLoopNoLookahead(m, nextNotetime, secondsPerBeat) ==
    IF nextNotetime < m.currentTime
    THEN LET t == nextNotetime + secondsPerBeat
             frequency == IF isAccent(m.beatCount.v, m.accent)
                          THEN accentFrequency ELSE normalFrequency
             played == playSound(m, t, frequency)
             counted == [played EXCEPT !.beatCount = Num(@.v + 1)]
         IN  IF secondsPerBeat <= 0
             THEN [counted EXCEPT !.hung = TRUE]
             ELSE schedulerLoopNoLookahead(counted, t, secondsPerBeat)
    ELSE m

\* The while loop of _scheduler. With secondsPerBeat <= 0 the loop, once
\* entered, is never left: hung is set after its first round.
RECURSIVE schedulerLoop(_, _, _)
schedulerLoop(m, nextNotetime, secondsPerBeat) ==
    IF nextNotetime < m.currentTime + lookAheadTime
    THEN LET t == nextNotetime + secondsPerBeat
             frequency == IF isAccent(m.beatCount.v, m.accent)
                          THEN accentFrequency ELSE normalFrequency
             played == playSound(m, t, frequency)
             counted == [played EXCEPT !.beatCount = Num(@.v + 1)]
         IN  IF secondsPerBeat <= 0
             THEN [counted EXCEPT !.hung = TRUE]
             ELSE schedulerLoop(counted, t, secondsPerBeat)
    ELSE m

scheduler(m) ==
    LET secondsPerBeat == SecondsPerBeat(m.bpm)
        entered == [m EXCEPT !.tickBase = Len(m.log), !.ran = TRUE,
                             !.lastRun = m.currentTime,
                             !.late = @ \/ m.currentTime - m.lastRun
                                               > lookAheadTime]
        after == schedulerLoop(entered, firstNotetime(m, secondsPerBeat),
                               secondsPerBeat)
    IN  IF after.hung THEN after ELSE setTimeout(after, "scheduler")

\* As rhythmTrackLoop, stopping at an event on the edge of the window.
RECURSIVE rhythmTrackLoopExclusive(_, _)
rhythmTrackLoopExclusive(state, scheduleEndTime) ==
    CHOOSE after \in {
        IF Len(m.rhythm.v) > 0
        THEN LET nextNoteTime == m.startTimeStamp.v + m.rhythm.v[1].time
             IN  IF nextNoteTime >= scheduleEndTime THEN m
                 ELSE LET beep == Head(m.rhythm.v)
                          shifted == [m EXCEPT !.rhythm = Arr(Tail(@.v))]
                          frequency == IF beep.accent THEN accentFrequency
                                       ELSE normalFrequency
                      IN  rhythmTrackLoopExclusive(
                              playSound(shifted, nextNoteTime, frequency),
                              scheduleEndTime)
        ELSE m : m \in {state} } : TRUE

\* The while loop of _schedulerForRhythmTrack, one round and then the rest.
\* (m is the value of state: the set binds it, so it is computed once.)
RECURSIVE rhythmTrackLoop(_, _)
rhythmTrackLoop(state, scheduleEndTime) ==
    CHOOSE after \in {
        IF Len(m.rhythm.v) > 0
        THEN LET nextNoteTime == m.startTimeStamp.v + m.rhythm.v[1].time
             IN  IF nextNoteTime > scheduleEndTime THEN m
                 ELSE LET beep == Head(m.rhythm.v)
                          shifted == [m EXCEPT !.rhythm = Arr(Tail(@.v))]
                          frequency == IF beep.accent THEN accentFrequency
                                       ELSE normalFrequency
                      IN  rhythmTrackLoop(
                              playSound(shifted, nextNoteTime, frequency),
                              scheduleEndTime)
        ELSE m : m \in {state} } : TRUE

\* As schedulerForRhythmTrack, never planning a next run.
schedulerForRhythmTrackOnce(m) ==
    rhythmTrackLoop([m EXCEPT !.tickBase = Len(m.log), !.ran = TRUE,
                              !.lastRun = m.currentTime],
                    m.currentTime + lookAheadTime)

schedulerForRhythmTrack(m) ==
    LET scheduleEndTime == m.currentTime + lookAheadTime
        entered == [m EXCEPT !.tickBase = Len(m.log), !.ran = TRUE,
                             !.lastRun = m.currentTime]
        after == rhythmTrackLoop(entered, scheduleEndTime)
    IN  IF Len(after.rhythm.v) > 0
        THEN setTimeout(after, "schedulerForRhythmTrack")
        ELSE after

\* Rhythm playback begins: the queue and the start time are stored and the
\* first run of the scheduler is made at once, as start() does for the
\* tempo.
startRhythm(m, rhythmQueue, startTimestamp) ==
    schedulerForRhythmTrack([m EXCEPT !.rhythm = Arr(rhythmQueue),
                                      !.startTimeStamp = Num(startTimestamp),
                                      !.log = <<>>])

\* As start, storing the bpm before the accent is validated.
startStoringEarly(m, bpmArg, accentArg) ==
    LET acc == DefaultArg(accentArg, Num(defaultAccent))
    IN  IF ~ToBoolean(bpmArg) \/ IsNaN(ToNumber(bpmArg)) THEN m
        ELSE IF ~ToBoolean(acc) \/ IsNaN(ToNumber(acc))
        THEN [m EXCEPT !.bpm = ToNumber(bpmArg)]
        ELSE scheduler([m EXCEPT !.bpm = ToNumber(bpmArg),
                                 !.accent = ToNumber(acc),
                                 !.isPlaying = TRUE,
                                 !.beatCount = Num(-1),
                                 !.startTimeStamp = Num(m.currentTime),
                                 !.log = <<>>,
                                 !.startedBpm = ToNumber(bpmArg),
                                 !.lastRun = m.currentTime,
                                 !.late = FALSE])

start(m, bpmArg, accentArg) ==
    LET acc == DefaultArg(accentArg, Num(defaultAccent))
    IN  IF ~ToBoolean(bpmArg) \/ IsNaN(ToNumber(bpmArg)) THEN m
        ELSE IF ~ToBoolean(acc) \/ IsNaN(ToNumber(acc)) THEN m
        ELSE scheduler([m EXCEPT !.bpm = ToNumber(bpmArg),
                                 !.accent = ToNumber(acc),
                                 !.isPlaying = TRUE,
                                 !.beatCount = Num(-1),
                                 !.startTimeStamp = Num(m.currentTime),
                                 !.log = <<>>,
                                 !.startedBpm = ToNumber(bpmArg),
                                 !.lastRun = m.currentTime,
                                 !.late = FALSE])

\* As stop, taking the beat count back to that of a start.
stopResetting(m) ==
    [clearTimeout(m, m.timerID) EXCEPT !.isPlaying = FALSE,
                                       !.beatCount = Num(-1)]

stop(m) == [clearTimeout(m, m.timerID) EXCEPT !.isPlaying = FALSE]

\* As toggle, without the fallback to the last bpm.
toggleNoFallback(m, bpmArg, accentArg) ==
    IF m.isPlaying THEN stop(m)
    ELSE start(m, bpmArg, DefaultArg(accentArg, Num(defaultAccent)))

\* As toggle, falling back to 120 bpm when no bpm is stored.
toggleDefaultTempo(m, bpmArg, accentArg) ==
    IF m.isPlaying THEN stop(m)
    ELSE start(m, IF bpmArg # Undefined THEN bpmArg
                  ELSE IF m.bpm = Null THEN Num(120) ELSE m.bpm,
               DefaultArg(accentArg, Num(defaultAccent)))

toggle(m, bpmArg, accentArg) ==
    IF m.isPlaying THEN stop(m)
    ELSE start(m, IF bpmArg = Undefined THEN m.bpm ELSE bpmArg,
               DefaultArg(accentArg, Num(defaultAccent)))

\* ------------------------------------------------------------ Recorder
\* start() of the Recorder, as far as the metronome and its logs go.
recorderStart(m, s) ==
    [start(m, Num(s.bpm \div s.beep), Num(s.accent))
        EXCEPT !.metronomeClicks = <<>>]

\* stop() of the Recorder up to its await.
recorderStop(m) == stop(m)

\* stop() of the Recorder after its await: both logs are shifted by the first
\* click.
recorderResume(m) ==
    LET firstClick == IF Len(m.metronomeClicks) > 0
                      THEN m.metronomeClicks[1] ELSE 0
    IN  [m EXCEPT !.metronomeClicks =
                      [j \in 1..Len(@) |-> @[j] - firstClick],
                  !.metronomeAccents =
                      [j \in 1..Len(@) |-> @[j] - firstClick]]

\* ------------------------------------------------------------ behaviour
Constructed ==
    /\ isPlaying = FALSE
    /\ timerID = Null
    /\ bpm = Null
    /\ accent = Num(4)
    /\ startTimeStamp = Null
    /\ beatCount = Null
    /\ currentTime = 0
    /\ timers = {}
    /\ log = <<>>
    /\ hung = FALSE
    /\ startedBpm = Null
    /\ tickBase = 0
    /\ ran = FALSE
    /\ lastOp = [op |-> "new", bpm |-> Undefined, accent |-> Undefined]
    /\ misconfigured = FALSE
    /\ lastRun = 0
    /\ late = FALSE
    /\ rhythm = NoArr
    /\ rhythmOrig = <<>>
    /\ metronomeClicks = <<>>
    /\ metronomeAccents = <<>>
    /\ isRecording = FALSE
    /\ awaiting = FALSE

\* A metronome with an observer that only sees the calls.
Init ==
    /\ Constructed
    /\ onClick = "probe"
    /\ settings = [bpm |-> 120, beep |-> 1, accent |-> 1]

IsPositive(x) == x.t = "number" /\ x.v > 0

Call(op, b, a, m) ==
    /\ ~hung
    /\ Cardinality(m.timers) <= MaxPending
    /\ Become(m)
    /\ lastOp' = [op |-> op, bpm |-> b, accent |-> a]
    /\ misconfigured' = (misconfigured
                         \/ (m.ran /\ ~(IsPositive(m.bpm) /\ IsPositive(m.accent))))
    /\ UNCHANGED <<rhythmOrig, recorderVars>>

Start == \E p \in StartArgs : Call("start", p[1], p[2], start(M, p[1], p[2]))

Stop == Call("stop", Undefined, Undefined, stop(M))

Toggle == \E p \in ToggleArgs : Call("toggle", p[1], p[2], toggle(M, p[1], p[2]))

\* A pending timeout fires, no earlier than its delay: the Ticker runs its
\* callback, which is always _scheduler.
Tick ==
    \E h \in timers :
        /\ ~hung
        /\ currentTime >= h.due
        /\ h.fn = "scheduler"
        /\ Become(scheduler([M EXCEPT !.timers = @ \ {h}]))
        /\ lastOp' = [op |-> "tick", bpm |-> Undefined, accent |-> Undefined]
        /\ UNCHANGED <<misconfigured, rhythmOrig, recorderVars>>

\* The AudioContext clock advances.
Advance ==
    /\ currentTime < MaxTime
    /\ currentTime' = currentTime + 1
    /\ lastOp' = [op |-> "advance", bpm |-> Undefined, accent |-> Undefined]
    /\ ran' = FALSE
    /\ UNCHANGED <<isPlaying, timerID, bpm, accent, startTimeStamp, beatCount,
                   timers, log, hung, startedBpm, tickBase, misconfigured,
                   lastRun, late, rhythm, rhythmOrig, onClick, metronomeClicks,
                   metronomeAccents, recorderVars>>

Next == Start \/ Stop \/ Toggle \/ Tick \/ Advance

Spec == Init /\ [][Next]_vars

\* ------------------------------------------------- behaviour: Recorder
\* The page of the Recorder: its observer is registered, and the inputs hold
\* one of the settings.
InitRecorder ==
    /\ Constructed
    /\ onClick = "recorder"
    /\ settings \in RecorderSettings

\* The button reads "start".
RecorderStart ==
    /\ ~isRecording
    /\ Become(recorderStart(M, settings))
    /\ isRecording' = TRUE
    /\ lastOp' = [op |-> "recorderStart", bpm |-> Undefined,
                  accent |-> Undefined]
    /\ UNCHANGED <<misconfigured, rhythmOrig, awaiting, settings>>

\* The button reads "stop": stop() runs up to its await.
RecorderStop ==
    /\ isRecording /\ ~awaiting
    /\ Become(recorderStop(M))
    /\ awaiting' = TRUE
    /\ lastOp' = [op |-> "recorderStop", bpm |-> Undefined,
                  accent |-> Undefined]
    /\ UNCHANGED <<misconfigured, rhythmOrig, isRecording, settings>>

\* The audio recorder has stopped: stop() runs to its end.
RecorderResume ==
    /\ awaiting
    /\ Become(recorderResume(M))
    /\ isRecording' = FALSE
    /\ awaiting' = FALSE
    /\ lastOp' = [op |-> "recorderResume", bpm |-> Undefined,
                  accent |-> Undefined]
    /\ UNCHANGED <<misconfigured, rhythmOrig, settings>>

NextRecorder ==
    RecorderStart \/ RecorderStop \/ RecorderResume \/ Tick \/ Advance

SpecRecorder == InitRecorder /\ [][NextRecorder]_vars

\* ------------------------------------------------- behaviour: rhythm track
\* A rhythm track is started on a metronome that has played none.
StartRhythm ==
    \E q \in RhythmQueues, t \in RhythmStarts :
        /\ rhythm.t = "null"
        /\ Become(startRhythm(M, q, t))
        /\ rhythmOrig' = q
        /\ lastOp' = [op |-> "startRhythm", bpm |-> Undefined,
                      accent |-> Undefined]
        /\ UNCHANGED <<misconfigured, recorderVars>>

\* A pending timeout of the rhythm track fires, no earlier than its delay.
TickRhythm ==
    \E h \in timers :
        /\ currentTime >= h.due
        /\ h.fn = "schedulerForRhythmTrack"
        /\ Become(schedulerForRhythmTrack([M EXCEPT !.timers = @ \ {h}]))
        /\ lastOp' = [op |-> "tickRhythm", bpm |-> Undefined,
                      accent |-> Undefined]
        /\ UNCHANGED <<misconfigured, rhythmOrig, recorderVars>>

NextRhythm == StartRhythm \/ TickRhythm \/ Advance

\* The clock advances and a timeout that is due fires.
SpecRhythm ==
    Init /\ [][NextRhythm]_vars /\ WF_vars(TickRhythm) /\ WF_vars(Advance)

\* ------------------------------------------------------------ claims
\* The oscillators of the session, in program order.
Tones == SelectSeq(log, LAMBDA e : e.kind = "tone")

\* The session was started with a finite positive tempo.
PositiveTempo == bpm.t = "number" /\ bpm.v > 0

\* 60 / bpm of such a session, and the target time of its beat i.
BeatInterval == (60 * UnitsPerSecond) \div bpm.v
TargetTime(i) == startTimeStamp.v + i * BeatInterval

\* C1: once stop() has returned and until the next accepted start(), no tick
\* runs: a tick never runs (emits, reschedules) while isPlaying is false.
\* Stated for a metronome every session of which had a positive bpm and
\* accent.
C1_NoTickWhileStopped == (lastOp.op = "tick" /\ ~misconfigured) => isPlaying

\* C2: after every tick of a session with bpm > 0, every beat whose target
\* time is before currentTime + lookAheadTime has been emitted exactly once,
\* and the beats emitted are the beats 0, 1, 2, ... in this order, none
\* skipped and none twice.
C2_NoBeatLoss ==
    (ran /\ ~hung /\ PositiveTempo) =>
        LET T == Tones
        IN  /\ \A i \in 0..(currentTime + lookAheadTime) :
                  TargetTime(i) < currentTime + lookAheadTime =>
                      Cardinality({j \in 1..Len(T) : T[j].time = TargetTime(i)}) = 1
            /\ \A j \in 1..Len(T) :
                  /\ (T[j].time - startTimeStamp.v) % BeatInterval = 0
                  /\ (T[j].time - startTimeStamp.v) \div BeatInterval = j - 1

\* A timeout fired late and its tick emitted two beats or more.
C2_Witness ==
    /\ lastOp.op = "tick" /\ ran /\ ~hung /\ PositiveTempo
    /\ Len(log) - tickBase >= 4

\* C3: in a session with bpm > 0 beat i is emitted with the target time
\* startTimeStamp + i * 60 / bpm, so consecutive beats are 60 / bpm apart and
\* strictly increasing, within a tick and from one tick to the next.
C3_BeatTimes ==
    PositiveTempo =>
        LET T == Tones
        IN  /\ Len(T) = beatCount.v + 1
            /\ \A j \in 1..Len(T) : T[j].time = TargetTime(j - 1)
            /\ \A j \in 1..(Len(T) - 1) :
                  /\ T[j + 1].time - T[j].time = BeatInterval
                  /\ T[j + 1].time > T[j].time

\* A later tick has continued the beats of the first one.
C3_Witness ==
    /\ lastOp.op = "tick" /\ PositiveTempo
    /\ tickBase > 0 /\ Len(log) > tickBase

\* C4: for an integer accent >= 1, beat i sounds at 330 Hz if and only if
\* i mod accent = 0, and at 220 Hz otherwise.
C4_AccentPattern ==
    (PositiveTempo /\ accent.t = "number" /\ accent.v >= 1) =>
        LET T == Tones
        IN  \A j \in 1..Len(T) :
                T[j].frequency = IF (j - 1) % accent.v = 0 THEN 330 ELSE 220

\* With accent 4 the beats 0 .. 4 have been emitted.
C4_Witness ==
    /\ PositiveTempo /\ accent = Num(4) /\ Len(Tones) >= 5
    /\ Tones[5].frequency = 330 /\ Tones[2].frequency = 220

\* C5: start() with bpm 0, NaN or missing, or with an accent passed as 0, NaN
\* or null, changes nothing in any state and runs no tick; an omitted accent
\* is the accent 4.
C5_InvalidBpm == {Num(0), NaN, Undefined}
C5_InvalidAccent == {Num(0), NaN, Null}
C5_RejectedStartIsNoOp ==
    /\ \A b \in C5_InvalidBpm, a \in AccentArgs : start(M, b, a) = M
    /\ \A b \in BpmArgs, a \in C5_InvalidAccent : start(M, b, a) = M
    /\ \A b \in BpmArgs : start(M, b, Undefined) = start(M, b, Num(4))
    /\ (lastOp.op = "start" /\ (lastOp.bpm \in C5_InvalidBpm
                                 \/ lastOp.accent \in C5_InvalidAccent)) => ~ran

\* start(120, null) was called on a playing metronome, which plays on.
C5_Witness ==
    /\ lastOp = [op |-> "start", bpm |-> Num(120), accent |-> Null]
    /\ isPlaying /\ ~ran /\ timers # {} /\ bpm = Num(600)

\* C6: start() with a negative or infinite bpm or with a negative accent is
\* rejected: such a call is never accepted, so after it no tick has run.
C6_NonPositiveRejected ==
    (lastOp.op = "start" /\ (lastOp.bpm \in {Num(-120), Infinity}
                             \/ lastOp.accent = Num(-2))) => ~ran

\* C7: toggle(bpm, accent) is stop() when playing and otherwise
\* start(b, accent), b being bpm or, when bpm is omitted, the bpm of the last
\* accepted start; the stored bpm is always that of the last accepted start.
C7_Accents == {Undefined, Null, Num(1)}
C7_Toggle ==
    /\ bpm = startedBpm
    /\ \A b \in BpmArgs, a \in C7_Accents :
          toggle(M, b, a) =
              IF isPlaying THEN stop(M)
              ELSE start(M, IF b = Undefined THEN startedBpm ELSE b, a)

\* toggle() without a bpm has restarted the metronome at the remembered 600.
C7_Witness ==
    /\ lastOp = [op |-> "toggle", bpm |-> Undefined, accent |-> Undefined]
    /\ isPlaying /\ ran /\ bpm = Num(600) /\ Len(log) > 0

\* C8: on an instance no start() of which was ever accepted, toggle() without
\* a bpm changes nothing: isPlaying stays false, beatCount and startTimeStamp
\* stay null, nothing is emitted and no tick is pending.
C8_FreshToggle ==
    (startedBpm = Null) =>
        /\ \A a \in AccentArgs : toggle(M, Undefined, a) = M
        /\ ~isPlaying /\ beatCount = Null /\ startTimeStamp = Null
        /\ log = <<>> /\ timers = {} /\ ~ran

\* toggle() was called on such an instance.
C8_Witness ==
    /\ lastOp = [op |-> "toggle", bpm |-> Undefined, accent |-> Undefined]
    /\ startedBpm = Null

\* The least beat index k with k * 60 / bpm >= lookAheadTime.
C9_LastOfFirstTick ==
    CHOOSE k \in 0..lookAheadTime :
        /\ k * BeatInterval >= lookAheadTime
        /\ \A l \in 0..(k - 1) : l * BeatInterval < lookAheadTime

\* C9: an accepted start() with bpm > 0 has run the first tick when it
\* returns, and that tick emitted exactly the beats 0 .. k, k the least index
\* with k * 60 / bpm >= lookAheadTime, and left its timeout pending.
\* start(120, 4) at time 0 emits beat 0 at 0 (330 Hz) and beat 1 at 0.5 s
\* (220 Hz), leaves beatCount = 1 and, on an idle instance, one tick pending.
C9_FirstTick ==
    [][ (lastOp'.op = "start" /\ ran' /\ PositiveTempo') =>
          /\ [j \in 1..Len(Tones') |-> Tones'[j].time]
                = [j \in 1..(C9_LastOfFirstTick' + 1) |-> TargetTime(j - 1)']
          /\ beatCount' = Num(C9_LastOfFirstTick')
          /\ \E h \in timers' : /\ h.id = timerID'.v
                                  /\ h.due = currentTime + scheduleTimeout
                                  /\ timers' = timers \cup {h}
                                  /\ h \notin timers
          /\ (lastOp'.bpm = Num(120) /\ lastOp'.accent = Num(4)
               /\ currentTime = 0) =>
                  /\ [j \in 1..Len(Tones') |-> <<Tones'[j].time, Tones'[j].frequency>>]
                        = << <<0, 330>>, <<lookAheadTime, 220>> >>
                  /\ beatCount' = Num(1)
                  /\ (timers = {} => Cardinality(timers') = 1) ]_vars

\* start(120, 4) was accepted at time 0 on an idle instance.
C9_Witness ==
    /\ lastOp = [op |-> "start", bpm |-> Num(120), accent |-> Num(4)]
    /\ ran /\ startTimeStamp = Num(0) /\ currentTime = 0
    /\ Cardinality(timers) = 1 /\ Len(Tones) = 2

\* C10: stop() twice leaves the state stop() once leaves, and stop() on a
\* metronome that is not playing changes nothing.
\* Stated for a metronome every session of which had a positive bpm and
\* accent.
C10_StopIdempotent ==
    ~misconfigured =>
        /\ stop(stop(M)) = stop(M)
        /\ ~isPlaying => stop(M) = M

\* C13: every beat is handed to the observer once, with its target time, and
\* then to the AudioContext once, at the same time and for beepDuration: the
\* history is a sequence of pairs, the observer's call first, so the times the
\* observer saw and the times that sound are the same sequence.
C13_EmissionOrder ==
    /\ Len(log) % 2 = 0
    /\ \A k \in 1..(Len(log) \div 2) :
          /\ log[2 * k - 1].kind = "click"
          /\ log[2 * k].kind = "tone"
          /\ log[2 * k].time = log[2 * k - 1].time
          /\ log[2 * k].until - log[2 * k].time = beepDuration
    /\ LET Clicks == SelectSeq(log, LAMBDA e : e.kind = "click")
           T == Tones
       IN  [j \in 1..Len(Clicks) |-> Clicks[j].time]
               = [j \in 1..Len(T) |-> T[j].time]

\* A tick has emitted two beats after those of start().
C13_Witness ==
    /\ lastOp.op = "tick" /\ tickBase >= 4 /\ Len(log) - tickBase >= 4

C15_TickCompletes ==
    /\ ~hung
    /\ ran => \E h \in timers : /\ timerID = Num(h.id)
                                /\ h.due = currentTime + scheduleTimeout

\* C16: from the first accepted start() on, beatCount is the number of beats
\* emitted since the last accepted start() minus one, and before it beatCount
\* is null. An accepted start() leaves it at the number of beats of its own
\* tick minus one (it counts from -1), a tick adds one for each beat it emits
\* and takes none away, and every other step, stop() and a rejected start()
\* among them, leaves it as it is.
C16_BeatCount ==
    [][ /\ startedBpm' = Null => beatCount' = Null
        /\ startedBpm' # Null => beatCount' = Num(Len(Tones') - 1)
        /\ IF ran' /\ lastOp'.op \in {"start", "toggle"}
           THEN beatCount' = Num((Len(log') \div 2) - 1)
           ELSE IF lastOp'.op = "tick"
           THEN /\ beatCount'.v >= beatCount.v
                /\ 2 * (beatCount'.v - beatCount.v) = Len(log') - Len(log)
           ELSE beatCount' = beatCount ]_vars

\* stop() was called after three beats or more, and they still count.
C16_Witness ==
    /\ lastOp.op = "stop" /\ ~isPlaying /\ PositiveTempo /\ beatCount.v >= 2

C18_SingleChain ==
    ~misconfigured =>
        /\ Cardinality(timers) <= 1
        /\ \A h \in timers : timerID = Num(h.id)

\* The events of a queue are in ascending order of their times.
Ascending(q) == \A i \in 1..(Len(q) - 1) : q[i].time <= q[i + 1].time

\* C11: the events emitted so far, followed by the events still queued, are
\* the queue the track was started with; each event sounds once, preceded by
\* the observer's call, at startTimeStamp + its time, at 330 Hz if it is an
\* accent and at 220 Hz if not; a run at clock t emits the longest front run
\* of events due at or before t + lookAheadTime; the times emitted for an
\* ascending queue never decrease.
C11_InOrderDelivery ==
    rhythm.t = "array" =>
        LET T == Tones
            n == Len(T)
        IN  /\ n <= Len(rhythmOrig)
            /\ rhythm.v = SubSeq(rhythmOrig, n + 1, Len(rhythmOrig))
            /\ Len(log) = 2 * n
            /\ \A j \in 1..n :
                  /\ T[j].time = startTimeStamp.v + rhythmOrig[j].time
                  /\ T[j].frequency = IF rhythmOrig[j].accent THEN 330 ELSE 220
                  /\ T[j] = log[2 * j]
                  /\ log[2 * j - 1] = [kind |-> "click", time |-> T[j].time,
                                       frequency |-> 0, until |-> T[j].time]
                  /\ T[j].until = T[j].time + beepDuration
            /\ ran =>
                  /\ \A j \in (tickBase + 1)..Len(log) :
                        log[j].time <= currentTime + lookAheadTime
                  /\ rhythm.v # <<>> =>
                        startTimeStamp.v + rhythm.v[1].time
                            > currentTime + lookAheadTime
            /\ Ascending(rhythmOrig) =>
                  \A j \in 1..(n - 1) : T[j].time <= T[j + 1].time

\* A later run has emitted an event that lies on the edge of its window.
C11_Witness ==
    /\ lastOp.op = "tickRhythm" /\ tickBase > 0 /\ Len(log) > tickBase
    /\ log[Len(log)].time = currentTime + lookAheadTime

\* C12: a rhythm track that has been started is played to its end, if the
\* clock advances and the pending timeout fires; the run that empties the
\* queue plans no further run, so with an empty queue no timeout is pending,
\* and a further run would emit nothing and plan nothing.
C12_Drains ==
    /\ (rhythm.t = "array") ~> (rhythm.t = "array" /\ rhythm.v = <<>>)
    /\ [](rhythm.t = "array" /\ rhythm.v = <<>> =>
            /\ timers = {}
            /\ schedulerForRhythmTrack(M).log = log
            /\ schedulerForRhythmTrack(M).timers = {})

\* A timeout of the track has emptied the queue.
C12_Witness ==
    /\ lastOp.op = "tickRhythm" /\ rhythm.v = <<>> /\ Len(log) > tickBase
    /\ timers = {} /\ Len(rhythmOrig) = MaxEvents

\* C19: when stop() of the Recorder has finished, metronomeClicks holds one
\* entry for each beat the metronome emitted since start() of the Recorder,
\* those of the tick inside metro.start() included: beatCount + 1 entries,
\* the times of the beats counted from beat 0, the first of them 0.
C19_ClickLogComplete ==
    lastOp.op = "recorderResume" =>
        LET T == Tones
        IN  /\ Len(metronomeClicks) = beatCount.v + 1
            /\ metronomeClicks
                  = [j \in 1..Len(T) |-> T[j].time - startTimeStamp.v]

\* The beats of the session that sounded at the accent frequency.
AccentedTones == SelectSeq(Tones, LAMBDA e : e.frequency = accentFrequency)

\* C20: when stop() of the Recorder has finished, metronomeAccents holds the
\* times of the accented beats of this recording, counted from beat 0, and
\* nothing else.
C20_AccentLog ==
    lastOp.op = "recorderResume" =>
        LET A == AccentedTones
        IN  metronomeAccents
                = [j \in 1..Len(A) |-> A[j].time - startTimeStamp.v]

====
